---------------------------- MODULE Spec2Model ----------------------------
(***************************************************************************)
(* A model of vello_hybrid's Scene (sparse_strips/vello_hybrid/src/        *)
(* scene.rs): the render state, the draw calls, reset, and the packing of  *)
(* the wide-tile grid into GpuStrip records by prepare_render_data.        *)
(*                                                                         *)
(* The geometry library (vello_common: flatten, tile, strip, coarse,       *)
(* encode) is modelled from its written contract: a path is an abstract    *)
(* shape that flattens to one Line group, tiles to the cells its strips    *)
(* start in, and renders to a list of strips.                              *)
(***************************************************************************)
EXTENDS Integers, Sequences, FiniteSets, TLC

(***************************************************************************)
(* Bounds of the model.                                                    *)
(***************************************************************************)
\* how many calls one behaviour makes on its Scene
MaxCalls == 3
\* the device's limits().max_texture_dimension_2d
MaxTextureDimension2d == 2
\* how many strips a RenderData handed to the Renderer holds at most
MaxStrips == 2
\* how many wide tiles a grid has at most when it is packed in one piece
MaxPackedTiles == 4

(***************************************************************************)
(* Constants of the geometry library.                                      *)
(***************************************************************************)
Tile_HEIGHT == 4
WideTile_WIDTH == 256

\* usize::from / u16 limbs: a usize or u32 is held as two limbs, value
\* h * 2^16 + l, so that values beyond the checker's integers can be stated.
Limb == 65536

(***************************************************************************)
(* Integers of the program.                                                *)
(***************************************************************************)
\* u16::div_ceil
DivCeil(a, b) == (a + b - 1) \div b

\* a usize from a small number
Usize(n) == [h |-> n \div Limb, l |-> n % Limb]

\* usize / small number (integer division)
UsizeDiv(k, d) == [h |-> k.h \div d, l |-> ((k.h % d) * Limb + k.l) \div d]

\* u32 values are [hi, lo], 16 bits each
U32(hi, lo) == [hi |-> hi, lo |-> lo]
U32Zero == U32(0, 0)

\* u32::try_from(usize): None when the value does not fit in 32 bits
TryIntoU32(k) ==
    IF k.h < Limb THEN [ok |-> TRUE, val |-> U32(k.h, k.l)]
    ELSE [ok |-> FALSE, val |-> U32Zero]

\* u32::from_ne_bytes on the target: b is the four bytes in memory order
FromNeBytes(b, endian) ==
    IF endian = "little"
    THEN U32(b[3] + 256 * b[4], b[1] + 256 * b[2])
    ELSE U32(b[1] * 256 + b[2], b[3] * 256 + b[4])

\* u16::to_ne_bytes on the target
ToNeBytes16(a, endian) ==
    IF endian = "little" THEN <<a % 256, a \div 256>> ELSE <<a \div 256, a % 256>>

(***************************************************************************)
(* Colours, paints, transforms.                                            *)
(***************************************************************************)
\* peniko::color::palette::css::BLACK, as premultiplied RGBA8 bytes
BLACK == <<0, 0, 0, 255>>
\* a translucent colour
TRANSLUCENT == <<128, 0, 0, 128>>
\* PremulColor transparent: the background of a new wide tile
TRANSPARENT == <<0, 0, 0, 0>>

\* the packed RGBA word of a colour (to_u32)
ColorToU32(c, endian) == FromNeBytes(c, endian)

\* kurbo::Affine as its six coefficients [a b c d e f]:
\*   (x, y) |-> (a x + c y + e, b x + d y + f)
IDENTITY == <<1, 0, 0, 1, 0, 0>>
TranslateX8 == <<1, 0, 0, 1, 8, 0>>
MirrorX == <<-1, 0, 0, 1, 0, 0>>

\* Affine * Affine: (A * B)(p) = A(B(p))
AffineMul(A, B) ==
    << A[1] * B[1] + A[3] * B[2],
       A[2] * B[1] + A[4] * B[2],
       A[1] * B[3] + A[3] * B[4],
       A[2] * B[3] + A[4] * B[4],
       A[1] * B[5] + A[3] * B[6] + A[5],
       A[2] * B[5] + A[4] * B[6] + A[6] >>

\* Affine * Point
AffineApply(A, x, y) == <<A[1] * x + A[3] * y + A[5], A[2] * x + A[4] * y + A[6]>>

\* peniko::Extend as u16
ExtendCode(e) == CASE e = "Pad" -> 0 [] e = "Repeat" -> 1 [] e = "Reflect" -> 2

\* kurbo::Stroke: Scene::default_render_state's stroke and a thicker one
DefaultStroke == [width |-> 1, join |-> "Bevel", start_cap |-> "Butt", end_cap |-> "Butt"]
ThickStroke == [width |-> 2, join |-> "Round", start_cap |-> "Round", end_cap |-> "Round"]

\* peniko::BlendMode
DefaultBlend == [mix |-> "Normal", compose |-> "SrcOver"]
MultiplyBlend == [mix |-> "Multiply", compose |-> "SrcOver"]

\* vello_common::paint::PaintType
SolidPaint(c) == [tag |-> "Solid", color |-> c]
ImagePaint(xe, ye, t) ==
    [tag |-> "Image", x_extend |-> xe, y_extend |-> ye, transform |-> t]
GradientPaint == [tag |-> "Gradient"]

\* vello_common::paint::Paint
PaintSolid(c) == [tag |-> "Solid", color |-> c]
PaintIndexed(i) == [tag |-> "Indexed", index |-> i]

\* the values the callers of the model pass to the setters
PaintTypes ==
    { SolidPaint(TRANSLUCENT), ImagePaint("Pad", "Repeat", MirrorX), GradientPaint }
Transforms == { IDENTITY, TranslateX8 }
Strokes == { ThickStroke }
FillRules == { "NonZero", "EvenOdd" }
BlendModes == { MultiplyBlend }

(***************************************************************************)
(* The state.                                                              *)
(***************************************************************************)
VARIABLES
    target_endian,  \* the byte order of the build target ("little" / "big")
    width,          \* Scene::width
    height,         \* Scene::height
    wide,           \* Scene::wide: the grid of wide tiles, row-major
    alphas,         \* Scene::alphas
    line_buf,       \* Scene::line_buf
    tiles,          \* Scene::tiles
    strip_buf,      \* Scene::strip_buf
    encoded_paints, \* Scene::encoded_paints
    upload_paints,  \* Scene::upload_paints
    paint,          \* Scene::paint
    stroke,         \* Scene::stroke
    transform,      \* Scene::transform
    fill_rule,      \* Scene::fill_rule
    blend_mode,     \* Scene::blend_mode
    rd,             \* the RenderData the caller holds (last one returned)
    rd_src,         \* history: where each record of rd came from
    panicked,       \* the call panicked (unimplemented!, expect)
    last_call,      \* history: the name of the last call
    n_draws,        \* history: draw calls so far (numbers the draws)
    n_calls,        \* history: calls so far
    since_reset,    \* history: "new", "reset" (no draw since), "drawn"
    resources,      \* Renderer::resources
    written,        \* what Renderer's queue was last told to write
    ops,            \* history: the calls made on the first of two Scenes
    replay,         \* history: 0, or the next call the second Scene is to get
    images,         \* ImageCache::images
    bind_group_layout, \* ImageCache::bind_group_layout
    visited         \* the iteration of prepare_render_data's loops last run
                    \* on its own, with the records it pushed (or None)

sceneVars ==
    << width, height, wide, alphas, line_buf, tiles, strip_buf, encoded_paints,
       upload_paints, paint, stroke, transform, fill_rule, blend_mode >>

histVars == << last_call, n_draws, n_calls, since_reset >>

rendererVars == << resources, written >>

twinVars == << ops, replay >>

cacheVars == << images, bind_group_layout >>

loopVars == << visited >>

vars ==
    << target_endian, sceneVars, rd, rd_src, panicked, histVars, rendererVars,
       twinVars, cacheVars, loopVars >>

(***************************************************************************)
(* The geometry library, from its contract.  A path is one of a few        *)
(* shapes; its flattening is one group of lines, which remembers the       *)
(* shape, the horizontal translation it was flattened under and, for a     *)
(* stroke, the stroke width.                                               *)
(***************************************************************************)
Paths == { 1, 2 }

\* Rect::new(0, 0, width, height): the rectangle that covers the surface
SurfaceRect == 3

\* the strips of the surface rectangle: one per tile-row band, as wide as
\* the surface; a band the rectangle covers in all its Tile::HEIGHT rows is
\* uniformly full, the last band of a surface whose height is no multiple
\* of Tile::HEIGHT is covered in some rows only, so it is dense
SurfaceRectStrips ==
    [ r \in 1..DivCeil(height, Tile_HEIGHT) |->
        [ x |-> 0, y |-> (r - 1) * Tile_HEIGHT, width |-> width,
          dense |-> r * Tile_HEIGHT > height ] ]

\* the strips of a filled shape under the identity transform:
\* shape 1 has a dense strip and a solid run that crosses a wide-tile edge,
\* shape 2 a dense strip left of shape 1's and one, a row below, that crosses
\* the wide-tile edge
PathStrips(p) ==
    IF p = 1
    THEN << [x |-> 250, y |-> 0, width |-> 2, dense |-> TRUE],
            [x |-> 252, y |-> 0, width |-> 6, dense |-> FALSE] >>
    ELSE IF p = 2
    THEN << [x |-> 8, y |-> 0, width |-> 1, dense |-> TRUE],
            [x |-> 255, y |-> Tile_HEIGHT, width |-> 2, dense |-> TRUE] >>
    ELSE SurfaceRectStrips

\* the coverage byte of a shape's partially covered pixels
Coverage(p) == IF p = 1 THEN 128 ELSE IF p = 2 THEN 64 ELSE 255

\* flatten::fill: the lines appended for a filled path under transform t
FlattenFill(p, t) == << [path |-> p, dx |-> t[5], stroke |-> 0] >>

\* flatten::stroke: the lines appended for the stroke outline of a path
FlattenStroke(p, st, t) == << [path |-> p, dx |-> t[5], stroke |-> st.width] >>

\* the strips one group of lines covers in device space: a stroke outline
\* is partially covered everywhere and wider by the stroke width
LineStrips(line) ==
    LET ps == PathStrips(line.path)
    IN  [ i \in 1..Len(ps) |->
            [ x |-> ps[i].x + line.dx,
              y |-> ps[i].y,
              width |-> IF line.stroke > 0 THEN ps[i].width + line.stroke - 1
                        ELSE ps[i].width,
              dense |-> (line.stroke > 0) \/ ps[i].dense ] ]

\* the order of Tiles::sort_tiles: row, then column, then line index
TileLess(a, b) ==
    \/ a.y < b.y
    \/ a.y = b.y /\ a.x < b.x
    \/ a.y = b.y /\ a.x = b.x /\ a.line < b.line

RECURSIVE SortTiles(_)
SortTiles(S) ==
    IF S = {} THEN << >>
    ELSE LET m == CHOOSE a \in S : \A b \in S \ {a} : TileLess(a, b)
         IN  << m >> \o SortTiles(S \ {m})

\* Tiles::make_tiles then Tiles::sort_tiles: one entry per line group and
\* cell of the surface it starts a strip in
MakeTiles(lb, w, h) ==
    SortTiles(UNION { { [x |-> LineStrips(lb[i])[k].x, y |-> LineStrips(lb[i])[k].y,
                         line |-> i] :
                          k \in { k \in 1..Len(LineStrips(lb[i])) :
                                    /\ LineStrips(lb[i])[k].x < w
                                    /\ LineStrips(lb[i])[k].y < h } } :
                      i \in 1..Len(lb) })

\* the strip of line group t.line that starts in the cell of tile entry t
StripAt(t, lb) ==
    LET ls == LineStrips(lb[t.line])
    IN  ls[CHOOSE k \in 1..Len(ls) : ls[k].x = t.x /\ ls[k].y = t.y]

\* whether a cell crossed by n coinciding outlines is covered under the rule
Covered(n, rule) == IF rule = "EvenOdd" THEN n % 2 = 1 ELSE n # 0

\* n times the value v
Repeat(v, n) == [ i \in 1..n |-> v ]

\* strip::render: clears strip_buf, walks the sorted tiles and, per covered
\* cell, emits one strip; a dense strip claims width * Tile::HEIGHT bytes at
\* the end of the alpha buffer
RECURSIVE RenderFrom(_, _, _, _, _, _)
RenderFrom(i, ts, lb, rule, strips, al) ==
    IF i > Len(ts) THEN [strip_buf |-> strips, alphas |-> al]
    ELSE LET t == ts[i]
             first == i = 1 \/ ts[i - 1].x # t.x \/ ts[i - 1].y # t.y
             n == Cardinality({ j \in 1..Len(ts) : ts[j].x = t.x /\ ts[j].y = t.y })
             s == StripAt(t, lb)
         IN  IF first /\ Covered(n, rule)
             THEN RenderFrom(i + 1, ts, lb, rule,
                     Append(strips, [x |-> s.x, y |-> s.y, width |-> s.width,
                                     dense |-> s.dense, alpha_idx |-> Len(al)]),
                     IF s.dense
                     THEN al \o Repeat(Coverage(lb[t.line].path), s.width * Tile_HEIGHT)
                     ELSE al)
             ELSE RenderFrom(i + 1, ts, lb, rule, strips, al)

Render(ts, al, rule, lb) == RenderFrom(1, ts, lb, rule, << >>, al)

\* Wide::new: a grid of empty wide tiles with a transparent background
WideNew(w, h) ==
    [ i \in 1..(DivCeil(w, WideTile_WIDTH) * DivCeil(h, Tile_HEIGHT)) |->
        [bg |-> TRANSPARENT, cmds |-> << >>] ]

\* Wide::reset: every wide tile back to no commands and no background
WideReset(w) == [ i \in 1..Len(w) |-> [bg |-> TRANSPARENT, cmds |-> << >>] ]

\* the command a strip contributes to wide-tile column xt
StripCmd(s, xt, pt, draw) ==
    LET x0 == IF s.x > xt * WideTile_WIDTH THEN s.x ELSE xt * WideTile_WIDTH
        x1 == IF s.x + s.width < (xt + 1) * WideTile_WIDTH
              THEN s.x + s.width ELSE (xt + 1) * WideTile_WIDTH
    IN  IF s.dense
        THEN [tag |-> "AlphaFill", x |-> x0 - xt * WideTile_WIDTH, width |-> x1 - x0,
              alpha_idx |-> Usize(s.alpha_idx + (x0 - s.x) * Tile_HEIGHT),
              paint |-> pt, draw |-> draw]
        ELSE [tag |-> "Fill", x |-> x0 - xt * WideTile_WIDTH, width |-> x1 - x0,
              paint |-> pt, draw |-> draw]

\* Wide::generate: each strip appends one command to every wide tile its
\* x-range touches, in strip order
RECURSIVE GenerateFrom(_, _, _, _, _, _)
GenerateFrom(i, strips, w, cols, pt, draw) ==
    IF i > Len(strips) THEN w
    ELSE LET s == strips[i]
             row == s.y \div Tile_HEIGHT
             xt0 == s.x \div WideTile_WIDTH
             xt1 == (s.x + s.width - 1) \div WideTile_WIDTH
             w2 == [ k \in 1..Len(w) |->
                       LET xt == (k - 1) % cols
                       IN  IF (k - 1) \div cols = row /\ xt >= xt0 /\ xt <= xt1
                           THEN [w[k] EXCEPT !.cmds = Append(@, StripCmd(s, xt, pt, draw))]
                           ELSE w[k] ]
         IN  GenerateFrom(i + 1, strips, w2, cols, pt, draw)

Generate(w, strips, cols, pt, draw) == GenerateFrom(1, strips, w, cols, pt, draw)

\* EncodeExt::encode_into for an image: appends EncodedPaint::Image with the
\* image's transform, its extends and the advance per device pixel, and
\* returns Paint::Indexed of the new slot
EncodedImage(i) ==
    [ tag |-> "Image",
      transform |-> i.transform,
      extends |-> << i.x_extend, i.y_extend >>,
      x_advance |-> << i.transform[1], i.transform[2] >>,
      y_advance |-> << i.transform[3], i.transform[4] >> ]

(***************************************************************************)
(* Scene: construction, the setters, paint resolution, the draw calls,     *)
(* reset.                                                                  *)
(***************************************************************************)
\* the surface sizes Scene::new is called with
Sizes == { <<300, 8>> }

\* Scene::default_render_state
DefaultRenderState ==
    [ transform |-> IDENTITY,
      fill_rule |-> "NonZero",
      paint |-> SolidPaint(BLACK),
      stroke |-> DefaultStroke,
      blend_mode |-> DefaultBlend ]

\* RenderData::default(): what the caller holds before the first call
NoRenderData == [strips |-> << >>, alphas |-> << >>]

\* Option::None of Renderer::resources
None == [tag |-> "None"]

\* Option::Some
Some(v) == [tag |-> "Some", val |-> v]

\* HashMap::new()
NoImages == [ id \in {} |-> None ]

\* the queue of a new Renderer: nothing written yet
NoWrites == [strips |-> << >>, alpha_data |-> << >>, texture_width |-> 0, texture_height |-> 0]

\* Scene::new
Init ==
    /\ target_endian \in { "little", "big" }
    /\ \E sz \in Sizes :
         /\ width = sz[1]
         /\ height = sz[2]
         /\ wide = WideNew(sz[1], sz[2])
    /\ alphas = << >>
    /\ line_buf = << >>
    /\ tiles = << >>
    /\ strip_buf = << >>
    /\ encoded_paints = << >>
    /\ upload_paints = << >>
    /\ paint = DefaultRenderState.paint
    /\ stroke = DefaultRenderState.stroke
    /\ transform = DefaultRenderState.transform
    /\ fill_rule = DefaultRenderState.fill_rule
    /\ blend_mode = DefaultRenderState.blend_mode
    /\ rd = NoRenderData
    /\ rd_src = << >>
    /\ panicked = FALSE
    /\ last_call = "new"
    /\ n_draws = 0
    /\ n_calls = 0
    /\ since_reset = "new"
    /\ resources = None
    /\ written = NoWrites
    /\ ops = << >>
    /\ replay = 0
    /\ images = NoImages
    /\ bind_group_layout = None
    /\ visited = None

\* Scene::set_blend_mode
SetBlendMode(b) ==
    /\ ~panicked
    /\ n_calls < MaxCalls
    /\ blend_mode' = b
    /\ last_call' = "set_blend_mode"
    /\ n_calls' = n_calls + 1
    /\ UNCHANGED << target_endian, width, height, wide, alphas, line_buf, tiles,
                    strip_buf, encoded_paints, upload_paints, paint, stroke,
                    transform, fill_rule, rd, rd_src, panicked, n_draws, since_reset >>

\* Scene::set_stroke
SetStroke(st) ==
    /\ ~panicked
    /\ n_calls < MaxCalls
    /\ stroke' = st
    /\ last_call' = "set_stroke"
    /\ n_calls' = n_calls + 1
    /\ UNCHANGED << target_endian, width, height, wide, alphas, line_buf, tiles,
                    strip_buf, encoded_paints, upload_paints, paint, blend_mode,
                    transform, fill_rule, rd, rd_src, panicked, n_draws, since_reset >>

\* Scene::set_paint
SetPaint(pt) ==
    /\ ~panicked
    /\ n_calls < MaxCalls
    /\ paint' = pt
    /\ last_call' = "set_paint"
    /\ n_calls' = n_calls + 1
    /\ UNCHANGED << target_endian, width, height, wide, alphas, line_buf, tiles,
                    strip_buf, encoded_paints, upload_paints, stroke, blend_mode,
                    transform, fill_rule, rd, rd_src, panicked, n_draws, since_reset >>

\* Scene::set_fill_rule
SetFillRule(f) ==
    /\ ~panicked
    /\ n_calls < MaxCalls
    /\ fill_rule' = f
    /\ last_call' = "set_fill_rule"
    /\ n_calls' = n_calls + 1
    /\ UNCHANGED << target_endian, width, height, wide, alphas, line_buf, tiles,
                    strip_buf, encoded_paints, upload_paints, paint, stroke,
                    blend_mode, transform, rd, rd_src, panicked, n_draws, since_reset >>

\* Scene::set_transform
SetTransform(t) ==
    /\ ~panicked
    /\ n_calls < MaxCalls
    /\ transform' = t
    /\ last_call' = "set_transform"
    /\ n_calls' = n_calls + 1
    /\ UNCHANGED << target_endian, width, height, wide, alphas, line_buf, tiles,
                    strip_buf, encoded_paints, upload_paints, paint, stroke,
                    blend_mode, fill_rule, rd, rd_src, panicked, n_draws, since_reset >>

\* Scene::reset_transform
ResetTransform ==
    /\ ~panicked
    /\ n_calls < MaxCalls
    /\ transform' = IDENTITY
    /\ last_call' = "reset_transform"
    /\ n_calls' = n_calls + 1
    /\ UNCHANGED << target_endian, width, height, wide, alphas, line_buf, tiles,
                    strip_buf, encoded_paints, upload_paints, paint, stroke,
                    blend_mode, fill_rule, rd, rd_src, panicked, n_draws, since_reset >>

\* a paint resolution that falls back to the default colour for a paint it
\* does not know
EncodeCurrentPaintDefaults ==
    CASE paint.tag = "Solid" ->
           [ panic |-> FALSE, paint |-> PaintSolid(paint.color),
             encoded_paints |-> encoded_paints, upload_paints |-> upload_paints ]
      [] paint.tag = "Image" ->
           LET i == [paint EXCEPT !.transform = AffineMul(transform, @)]
               indexed == PaintIndexed(Len(encoded_paints))
           IN  [ panic |-> FALSE, paint |-> indexed,
                 encoded_paints |-> Append(encoded_paints, EncodedImage(i)),
                 upload_paints |-> Append(upload_paints, indexed) ]
      [] OTHER ->
           [ panic |-> FALSE, paint |-> PaintSolid(BLACK),
             encoded_paints |-> encoded_paints, upload_paints |-> upload_paints ]

\* a paint resolution that looks an image up in the table and hands out the
\* slot of an equal entry instead of a new one, yet queues it again
EncodeCurrentPaintReuses ==
    CASE paint.tag = "Solid" ->
           [ panic |-> FALSE, paint |-> PaintSolid(paint.color),
             encoded_paints |-> encoded_paints, upload_paints |-> upload_paints ]
      [] paint.tag = "Image" ->
           LET i == [paint EXCEPT !.transform = AffineMul(transform, @)]
               same == { k \in 1..Len(encoded_paints) : encoded_paints[k] = EncodedImage(i) }
           IN  IF same # {}
               THEN LET indexed == PaintIndexed((CHOOSE k \in same : TRUE) - 1)
                    IN  [ panic |-> FALSE, paint |-> indexed,
                          encoded_paints |-> encoded_paints,
                          upload_paints |-> Append(upload_paints, indexed) ]
               ELSE LET indexed == PaintIndexed(Len(encoded_paints))
                    IN  [ panic |-> FALSE, paint |-> indexed,
                          encoded_paints |-> Append(encoded_paints, EncodedImage(i)),
                          upload_paints |-> Append(upload_paints, indexed) ]
      [] OTHER ->
           [ panic |-> TRUE, paint |-> PaintSolid(TRANSPARENT),
             encoded_paints |-> encoded_paints, upload_paints |-> upload_paints ]

\* a paint resolution that composes the two transforms the other way round:
\* i.transform * self.transform
EncodeCurrentPaintSwapped ==
    CASE paint.tag = "Solid" ->
           [ panic |-> FALSE, paint |-> PaintSolid(paint.color),
             encoded_paints |-> encoded_paints, upload_paints |-> upload_paints ]
      [] paint.tag = "Image" ->
           LET i == [paint EXCEPT !.transform = AffineMul(@, transform)]
               indexed == PaintIndexed(Len(encoded_paints))
           IN  [ panic |-> FALSE, paint |-> indexed,
                 encoded_paints |-> Append(encoded_paints, EncodedImage(i)),
                 upload_paints |-> Append(upload_paints, indexed) ]
      [] OTHER ->
           [ panic |-> TRUE, paint |-> PaintSolid(TRANSPARENT),
             encoded_paints |-> encoded_paints, upload_paints |-> upload_paints ]

\* a paint resolution that encodes the image into a copy of the table: the
\* draw gets the index, the Scene's table does not get the entry
EncodeCurrentPaintIntoCopy ==
    CASE paint.tag = "Solid" ->
           [ panic |-> FALSE, paint |-> PaintSolid(paint.color),
             encoded_paints |-> encoded_paints, upload_paints |-> upload_paints ]
      [] paint.tag = "Image" ->
           LET indexed == PaintIndexed(Len(encoded_paints))
           IN  [ panic |-> FALSE, paint |-> indexed,
                 encoded_paints |-> encoded_paints,
                 upload_paints |-> Append(upload_paints, indexed) ]
      [] OTHER ->
           [ panic |-> TRUE, paint |-> PaintSolid(TRANSPARENT),
             encoded_paints |-> encoded_paints, upload_paints |-> upload_paints ]

\* Scene::encode_current_paint: the Paint of the draw, the table and the
\* upload queue after it, and whether it hit unimplemented!
EncodeCurrentPaint ==
    CASE paint.tag = "Solid" ->
           [ panic |-> FALSE, paint |-> PaintSolid(paint.color),
             encoded_paints |-> encoded_paints, upload_paints |-> upload_paints ]
      [] paint.tag = "Image" ->
           LET i == [paint EXCEPT !.transform = AffineMul(transform, @)]
               indexed == PaintIndexed(Len(encoded_paints))
           IN  [ panic |-> FALSE, paint |-> indexed,
                 encoded_paints |-> Append(encoded_paints, EncodedImage(i)),
                 upload_paints |-> Append(upload_paints, indexed) ]
      [] OTHER ->
           [ panic |-> TRUE, paint |-> PaintSolid(TRANSPARENT),
             encoded_paints |-> encoded_paints, upload_paints |-> upload_paints ]

\* a render_path that hands strip::render an empty alpha buffer instead of
\* the Scene's
RenderPathFreshAlphas(rule, pt, lb) ==
    LET Rendered(ts) == [tiles |-> ts] @@ Render(ts, << >>, rule, lb)
        Generated(r) ==
            [ tiles |-> r.tiles,
              strip_buf |-> r.strip_buf,
              alphas |-> r.alphas,
              wide |-> Generate(wide, r.strip_buf, DivCeil(width, WideTile_WIDTH), pt,
                                n_draws + 1) ]
    IN  Generated(Rendered(MakeTiles(lb, width, height)))

\* Scene::render_path over line buffer lb: tiles, strips, alphas and the
\* wide-tile grid after it
RenderPath(rule, pt, lb) ==
    LET Rendered(ts) == [tiles |-> ts] @@ Render(ts, alphas, rule, lb)
        Generated(r) ==
            [ tiles |-> r.tiles,
              strip_buf |-> r.strip_buf,
              alphas |-> r.alphas,
              wide |-> Generate(wide, r.strip_buf, DivCeil(width, WideTile_WIDTH), pt,
                                n_draws + 1) ]
    IN  Generated(Rendered(MakeTiles(lb, width, height)))

\* the body the four draw calls share: the path is flattened into line_buf,
\* the current paint is encoded, the path is rendered
DrawCall(op, lines, rule) ==
    /\ ~panicked
    /\ n_calls < MaxCalls
    /\ line_buf' = line_buf \o lines
    /\ \E enc \in { EncodeCurrentPaint } :
         IF enc.panic
         THEN /\ panicked' = TRUE
              /\ UNCHANGED << wide, alphas, tiles, strip_buf, encoded_paints,
                              upload_paints >>
         ELSE \E r \in { RenderPath(rule, enc.paint, line_buf \o lines) } :
                /\ panicked' = FALSE
                /\ encoded_paints' = enc.encoded_paints
                /\ upload_paints' = enc.upload_paints
                /\ tiles' = r.tiles
                /\ strip_buf' = r.strip_buf
                /\ alphas' = r.alphas
                /\ wide' = r.wide
    /\ last_call' = op
    /\ n_draws' = n_draws + 1
    /\ n_calls' = n_calls + 1
    /\ since_reset' = "drawn"
    /\ UNCHANGED << target_endian, width, height, paint, stroke, transform,
                    fill_rule, blend_mode, rd, rd_src >>

\* Scene::fill_path
FillPath(p) == DrawCall("fill_path", FlattenFill(p, transform), fill_rule)

\* Scene::fill_rect
FillRect(rect) == FillPath(rect)

\* a stroke_path that rasterizes with the Scene's fill rule, as fill_path does
StrokePathWithFillRule(p) ==
    DrawCall("stroke_path", FlattenStroke(p, stroke, transform), fill_rule)

\* Scene::stroke_path
StrokePath(p) == DrawCall("stroke_path", FlattenStroke(p, stroke, transform), "NonZero")

\* Scene::stroke_rect
StrokeRect(rect) == StrokePath(rect)

\* GlyphRenderer::fill_glyph: the outline under the glyph's own transform
FillGlyph(p, gt) == DrawCall("fill_glyph", FlattenFill(p, gt), "NonZero")

\* GlyphRenderer::stroke_glyph
StrokeGlyph(p, gt) == DrawCall("stroke_glyph", FlattenStroke(p, stroke, gt), "NonZero")

DrawOps == { "fill_path", "stroke_path", "fill_glyph", "stroke_glyph" }

\* a reset that forgets to clear the alpha buffer
ResetKeepsAlphas ==
    /\ ~panicked
    /\ n_calls < MaxCalls
    /\ wide' = WideReset(wide)
    /\ line_buf' = << >>
    /\ tiles' = << >>
    /\ strip_buf' = << >>
    /\ transform' = DefaultRenderState.transform
    /\ fill_rule' = DefaultRenderState.fill_rule
    /\ paint' = DefaultRenderState.paint
    /\ stroke' = DefaultRenderState.stroke
    /\ blend_mode' = DefaultRenderState.blend_mode
    /\ last_call' = "reset"
    /\ n_calls' = n_calls + 1
    /\ since_reset' = "reset"
    /\ UNCHANGED << target_endian, width, height, alphas, encoded_paints,
                    upload_paints, rd, rd_src, panicked, n_draws >>

\* Scene::reset
Reset ==
    /\ ~panicked
    /\ n_calls < MaxCalls
    /\ wide' = WideReset(wide)
    /\ alphas' = << >>
    /\ line_buf' = << >>
    /\ tiles' = << >>
    /\ strip_buf' = << >>
    /\ transform' = DefaultRenderState.transform
    /\ fill_rule' = DefaultRenderState.fill_rule
    /\ paint' = DefaultRenderState.paint
    /\ stroke' = DefaultRenderState.stroke
    /\ blend_mode' = DefaultRenderState.blend_mode
    /\ last_call' = "reset"
    /\ n_calls' = n_calls + 1
    /\ since_reset' = "reset"
    /\ UNCHANGED << target_endian, width, height, encoded_paints, upload_paints,
                    rd, rd_src, panicked, n_draws >>

(***************************************************************************)
(* Scene::prepare_render_data: the packing of the wide-tile grid into      *)
(* GpuStrip records.                                                       *)
(***************************************************************************)
\* u16 arithmetic
U16Add(a, b) == (a + b) % Limb
U16Mul(a, b) == (a * b) % Limb

\* `f64 as u16`: the cast saturates
AsU16(v) == IF v < 0 THEN 0 ELSE IF v > Limb - 1 THEN Limb - 1 ELSE v

\* pack_u16s_to_u32
pack_u16s_to_u32(a, b) ==
    LET a_bytes == ToNeBytes16(a, target_endian)
        b_bytes == ToNeBytes16(b, target_endian)
    IN  FromNeBytes(<< a_bytes[1], a_bytes[2], b_bytes[1], b_bytes[2] >>, target_endian)

ZeroAdvance == << 0, 0 >>

\* image columns whose start sample is taken at the origin of the surface
\* instead of at the record's position
ImageFieldsAtOrigin(encoded_image, strip_x, strip_y) ==
    LET start_p == AffineApply(encoded_image.transform, 0, 0)
        u0 == AsU16(start_p[1])
        v0 == AsU16(start_p[2])
        extend_x == ExtendCode(encoded_image.extends[1])
        extend_y == ExtendCode(encoded_image.extends[2])
    IN  [ panic |-> FALSE,
          paint_type |-> 2,
          paint_index |-> pack_u16s_to_u32(u0, v0),
          paint_data |-> pack_u16s_to_u32(extend_x, extend_y),
          x_advance |-> encoded_image.x_advance,
          y_advance |-> encoded_image.y_advance ]

\* the paint columns of a record whose paint resolves to an encoded image
ImageFields(encoded_image, strip_x, strip_y) ==
    LET start_p == AffineApply(encoded_image.transform, strip_x, strip_y)
        u0 == AsU16(start_p[1])
        v0 == AsU16(start_p[2])
        extend_x == ExtendCode(encoded_image.extends[1])
        extend_y == ExtendCode(encoded_image.extends[2])
    IN  [ panic |-> FALSE,
          paint_type |-> 2,
          paint_index |-> pack_u16s_to_u32(u0, v0),
          paint_data |-> pack_u16s_to_u32(extend_x, extend_y),
          x_advance |-> encoded_image.x_advance,
          y_advance |-> encoded_image.y_advance ]

\* what both Paint::Indexed arms pack when the index has no entry in the
\* table or the entry is no image
FallbackFields ==
    [ panic |-> FALSE, paint_type |-> 0, paint_index |-> U32Zero,
      paint_data |-> U32Zero, x_advance |-> ZeroAdvance, y_advance |-> ZeroAdvance ]

\* unimplemented!(..) / expect(..)
PanicFields ==
    [ panic |-> TRUE, paint_type |-> 0, paint_index |-> U32Zero,
      paint_data |-> U32Zero, x_advance |-> ZeroAdvance, y_advance |-> ZeroAdvance ]

\* Paint::Indexed: self.encoded_paints.get(index), then the image match
IndexedFields(indexed_paint, strip_x, strip_y) ==
    IF indexed_paint.index < Len(encoded_paints)
    THEN LET encoded_paint == encoded_paints[indexed_paint.index + 1]
         IN  IF encoded_paint.tag = "Image"
             THEN ImageFields(encoded_paint, strip_x, strip_y)
             ELSE FallbackFields
    ELSE FallbackFields

\* the paint match of Cmd::Fill
FillPaintFields(cmd, strip_x, strip_y) ==
    CASE cmd.paint.tag = "Solid" ->
           [ panic |-> FALSE, paint_type |-> 0, paint_index |-> U32Zero,
             paint_data |-> ColorToU32(cmd.paint.color, target_endian),
             x_advance |-> ZeroAdvance, y_advance |-> ZeroAdvance ]
      [] cmd.paint.tag = "Indexed" -> IndexedFields(cmd.paint, strip_x, strip_y)
      [] OTHER -> PanicFields

\* the column cast with `as u32`: the quotient wraps instead of failing
AlphaColWrapping(alpha_idx) ==
    [ ok |-> TRUE,
      val |-> U32(UsizeDiv(alpha_idx, Tile_HEIGHT).h % Limb,
                  UsizeDiv(alpha_idx, Tile_HEIGHT).l) ]

\* alpha_col: (cmd.alpha_idx / Tile::HEIGHT).try_into().expect(msg)
AlphaCol(alpha_idx) == TryIntoU32(UsizeDiv(alpha_idx, Tile_HEIGHT))

\* the paint match of Cmd::Fill pasted into Cmd::AlphaFill unchanged
AlphaFillPaintFieldsOfFill(cmd, strip_x, strip_y) ==
    FillPaintFields(cmd, strip_x, strip_y)

\* the paint match of Cmd::AlphaFill
AlphaFillPaintFields(cmd, strip_x, strip_y) ==
    CASE cmd.paint.tag = "Solid" ->
           LET alpha_col == AlphaCol(cmd.alpha_idx)
           IN  IF alpha_col.ok
               THEN [ panic |-> FALSE, paint_type |-> 1, paint_index |-> alpha_col.val,
                      paint_data |-> ColorToU32(cmd.paint.color, target_endian),
                      x_advance |-> ZeroAdvance, y_advance |-> ZeroAdvance ]
               ELSE PanicFields
      [] cmd.paint.tag = "Indexed" -> IndexedFields(cmd.paint, strip_x, strip_y)
      [] OTHER -> PanicFields

\* the GpuStrip pushed for the background of a wide tile
BgStrip(bg, wide_tile_x, wide_tile_y) ==
    [ x |-> wide_tile_x, y |-> wide_tile_y, width |-> WideTile_WIDTH,
      dense_width |-> 0, paint_type |-> 0, paint_index |-> U32Zero,
      paint_data |-> bg, x_advance |-> ZeroAdvance, y_advance |-> ZeroAdvance ]

\* a Fill record that takes the command's width as its dense width
FillStripDense(cmd, f, strip_x, strip_y) ==
    [ panic |-> f.panic,
      strip |-> [ x |-> strip_x, y |-> strip_y, width |-> cmd.width,
                  dense_width |-> cmd.width,
                  paint_type |-> f.paint_type, paint_index |-> f.paint_index,
                  paint_data |-> f.paint_data, x_advance |-> f.x_advance,
                  y_advance |-> f.y_advance ] ]

\* the GpuStrip pushed for a Cmd::Fill (f: its paint columns), unless the
\* paint match panicked
FillStrip(cmd, f, strip_x, strip_y) ==
    [ panic |-> f.panic,
      strip |-> [ x |-> strip_x, y |-> strip_y, width |-> cmd.width, dense_width |-> 0,
                  paint_type |-> f.paint_type, paint_index |-> f.paint_index,
                  paint_data |-> f.paint_data, x_advance |-> f.x_advance,
                  y_advance |-> f.y_advance ] ]

\* the GpuStrip pushed for a Cmd::AlphaFill
AlphaFillStrip(cmd, f, strip_x, strip_y) ==
    [ panic |-> f.panic,
      strip |-> [ x |-> strip_x, y |-> strip_y, width |-> cmd.width,
                  dense_width |-> cmd.width,
                  paint_type |-> f.paint_type, paint_index |-> f.paint_index,
                  paint_data |-> f.paint_data, x_advance |-> f.x_advance,
                  y_advance |-> f.y_advance ] ]

\* the records of two stretches of the loop, one after the other
Join(a, b) ==
    [ panic |-> a.panic \/ b.panic,
      strips |-> a.strips \o b.strips,
      src |-> a.src \o b.src ]

NoStrips == [panic |-> FALSE, strips |-> << >>, src |-> << >>]
Panic == [panic |-> TRUE, strips |-> << >>, src |-> << >>]

\* one record and the command (or background) it came from
OneStrip(c, from) ==
    IF c.panic THEN Panic
    ELSE [panic |-> FALSE, strips |-> << c.strip >>, src |-> << from >>]

\* one command of a wide tile: the match on Cmd
PackCmd(cmd, wide_tile_x, wide_tile_y) ==
    LET strip_x == U16Add(wide_tile_x, cmd.x)
        strip_y == wide_tile_y
    IN  CASE cmd.tag = "Fill" ->
               FillStrip(cmd, FillPaintFields(cmd, strip_x, strip_y), strip_x, strip_y)
          [] cmd.tag = "AlphaFill" ->
               AlphaFillStrip(cmd, AlphaFillPaintFields(cmd, strip_x, strip_y),
                              strip_x, strip_y)
          [] OTHER ->
               [panic |-> TRUE, strip |-> BgStrip(U32Zero, wide_tile_x, wide_tile_y)]

\* the commands walked from the last to the first
RECURSIVE PackCmdsReversed(_, _, _, _, _)
PackCmdsReversed(cmds, i, idx, wide_tile_x, wide_tile_y) ==
    IF i > Len(cmds) THEN NoStrips
    ELSE Join(OneStrip(PackCmd(cmds[Len(cmds) + 1 - i], wide_tile_x, wide_tile_y),
                       [tile |-> idx, ci |-> Len(cmds) + 1 - i,
                        kind |-> cmds[Len(cmds) + 1 - i].tag,
                        draw |-> cmds[Len(cmds) + 1 - i].draw]),
              PackCmdsReversed(cmds, i + 1, idx, wide_tile_x, wide_tile_y))

\* `for cmd in &wide_tile.cmds`, from command i on: the records pushed and,
\* beside each, the command it came from
RECURSIVE PackCmds(_, _, _, _, _)
PackCmds(cmds, i, idx, wide_tile_x, wide_tile_y) ==
    IF i > Len(cmds) THEN NoStrips
    ELSE Join(OneStrip(PackCmd(cmds[i], wide_tile_x, wide_tile_y),
                       [tile |-> idx, ci |-> i, kind |-> cmds[i].tag,
                        draw |-> cmds[i].draw]),
              PackCmds(cmds, i + 1, idx, wide_tile_x, wide_tile_y))

\* the background pushed after the commands of its wide tile
PackTileBgLast(wide_tile_row, wide_tile_col, wide_tiles_per_row) ==
    LET wide_tile_idx == wide_tile_row * wide_tiles_per_row + wide_tile_col
    IN  IF wide_tile_idx >= Len(wide)
        THEN Panic
        ELSE LET wide_tile == wide[wide_tile_idx + 1]
                 wide_tile_x == U16Mul(wide_tile_col, WideTile_WIDTH)
                 wide_tile_y == U16Mul(wide_tile_row, Tile_HEIGHT)
                 bg == ColorToU32(wide_tile.bg, target_endian)
             IN  Join(PackCmds(wide_tile.cmds, 1, wide_tile_idx, wide_tile_x, wide_tile_y),
                      IF bg # U32Zero
                      THEN OneStrip([panic |-> FALSE,
                                     strip |-> BgStrip(bg, wide_tile_x, wide_tile_y)],
                                    [tile |-> wide_tile_idx, ci |-> 0, kind |-> "bg",
                                     draw |-> 0])
                      ELSE NoStrips)

\* the body of the inner loop with the row's position taken in steps of
\* WideTile::WIDTH instead of Tile::HEIGHT
PackTileRowPitch(wide_tile_row, wide_tile_col, wide_tiles_per_row) ==
    LET wide_tile_idx == wide_tile_row * wide_tiles_per_row + wide_tile_col
    IN  IF wide_tile_idx >= Len(wide)
        THEN Panic
        ELSE LET wide_tile == wide[wide_tile_idx + 1]
                 wide_tile_x == U16Mul(wide_tile_col, WideTile_WIDTH)
                 wide_tile_y == U16Mul(wide_tile_row, WideTile_WIDTH)
                 bg == ColorToU32(wide_tile.bg, target_endian)
             IN  Join(IF bg # U32Zero
                      THEN OneStrip([panic |-> FALSE,
                                     strip |-> BgStrip(bg, wide_tile_x, wide_tile_y)],
                                    [tile |-> wide_tile_idx, ci |-> 0, kind |-> "bg",
                                     draw |-> 0])
                      ELSE NoStrips,
                      PackCmds(wide_tile.cmds, 1, wide_tile_idx, wide_tile_x, wide_tile_y))

\* the body of the inner loop: one wide tile, its background first
PackTile(wide_tile_row, wide_tile_col, wide_tiles_per_row) ==
    LET wide_tile_idx == wide_tile_row * wide_tiles_per_row + wide_tile_col
    IN  IF wide_tile_idx >= Len(wide)
        THEN Panic
        ELSE LET wide_tile == wide[wide_tile_idx + 1]
                 wide_tile_x == U16Mul(wide_tile_col, WideTile_WIDTH)
                 wide_tile_y == U16Mul(wide_tile_row, Tile_HEIGHT)
                 bg == ColorToU32(wide_tile.bg, target_endian)
             IN  Join(IF bg # U32Zero
                      THEN OneStrip([panic |-> FALSE,
                                     strip |-> BgStrip(bg, wide_tile_x, wide_tile_y)],
                                    [tile |-> wide_tile_idx, ci |-> 0, kind |-> "bg",
                                     draw |-> 0])
                      ELSE NoStrips,
                      PackCmds(wide_tile.cmds, 1, wide_tile_idx, wide_tile_x, wide_tile_y))

\* the loops nested the other way round: columns outside, rows inside
RECURSIVE PackFromColumnMajor(_, _)
PackFromColumnMajor(wide_tile_row, wide_tile_col) ==
    LET wide_tiles_per_row == DivCeil(width, WideTile_WIDTH)
        wide_tiles_per_col == DivCeil(height, Tile_HEIGHT)
    IN  IF wide_tile_col >= wide_tiles_per_row
        THEN NoStrips
        ELSE IF wide_tile_row >= wide_tiles_per_col
        THEN PackFromColumnMajor(0, wide_tile_col + 1)
        ELSE Join(PackTile(wide_tile_row, wide_tile_col, wide_tiles_per_row),
                  PackFromColumnMajor(wide_tile_row + 1, wide_tile_col))

\* the two loops, from wide tile (row, col) on: rows outside, columns inside
RECURSIVE PackFrom(_, _)
PackFrom(wide_tile_row, wide_tile_col) ==
    LET wide_tiles_per_row == DivCeil(width, WideTile_WIDTH)
        wide_tiles_per_col == DivCeil(height, Tile_HEIGHT)
    IN  IF wide_tile_row >= wide_tiles_per_col
        THEN NoStrips
        ELSE IF wide_tile_col >= wide_tiles_per_row
        THEN PackFrom(wide_tile_row + 1, 0)
        ELSE Join(PackTile(wide_tile_row, wide_tile_col, wide_tiles_per_row),
                  PackFrom(wide_tile_row, wide_tile_col + 1))

\* a prepare_render_data that moves the alpha buffer out of the Scene
\* instead of copying it
PrepareRenderDataTakes ==
    /\ ~panicked
    /\ n_calls < MaxCalls
    /\ \E r \in { PackFrom(0, 0) } :
         IF r.panic
         THEN /\ panicked' = TRUE
              /\ UNCHANGED << rd, rd_src >>
         ELSE /\ panicked' = FALSE
              /\ rd' = [strips |-> r.strips, alphas |-> alphas]
              /\ rd_src' = r.src
    /\ alphas' = << >>
    /\ last_call' = "prepare_render_data"
    /\ n_calls' = n_calls + 1
    /\ UNCHANGED << target_endian, width, height, wide, line_buf, tiles, strip_buf,
                    encoded_paints, upload_paints, paint, stroke, transform,
                    fill_rule, blend_mode, n_draws, since_reset >>

\* a prepare_render_data that walks the wide tiles in an order that is not
\* fixed: rows first in one run, columns first in another
PrepareRenderDataAnyOrder ==
    /\ ~panicked
    /\ n_calls < MaxCalls
    /\ \E r \in { PackFrom(0, 0), PackFromColumnMajor(0, 0) } :
         IF r.panic
         THEN /\ panicked' = TRUE
              /\ UNCHANGED << rd, rd_src >>
         ELSE /\ panicked' = FALSE
              /\ rd' = [strips |-> r.strips, alphas |-> alphas]
              /\ rd_src' = r.src
    /\ last_call' = "prepare_render_data"
    /\ n_calls' = n_calls + 1
    /\ UNCHANGED << target_endian, sceneVars, n_draws, since_reset >>

\* Scene::prepare_render_data: the caller gets the records and a copy of
\* the alpha buffer, or the call panics
PrepareRenderData ==
    /\ ~panicked
    /\ n_calls < MaxCalls
    /\ \E r \in { PackFrom(0, 0) } :
         IF r.panic
         THEN /\ panicked' = TRUE
              /\ UNCHANGED << rd, rd_src >>
         ELSE /\ panicked' = FALSE
              /\ rd' = [strips |-> r.strips, alphas |-> alphas]
              /\ rd_src' = r.src
    /\ last_call' = "prepare_render_data"
    /\ n_calls' = n_calls + 1
    /\ UNCHANGED << target_endian, sceneVars, n_draws, since_reset >>

(***************************************************************************)
(* The specification: any sequence of calls on one Scene.                  *)
(***************************************************************************)
\* a call made by action A on the one Scene there is: the Renderer and the
\* image cache are not touched, no call is recorded
Alone(A) == A /\ UNCHANGED << rendererVars, twinVars, cacheVars, loopVars >>

Next ==
    \/ \E b \in BlendModes : Alone(SetBlendMode(b))
    \/ \E st \in Strokes : Alone(SetStroke(st))
    \/ \E pt \in PaintTypes : Alone(SetPaint(pt))
    \/ \E f \in FillRules : Alone(SetFillRule(f))
    \/ \E t \in Transforms : Alone(SetTransform(t))
    \/ Alone(ResetTransform)
    \/ \E p \in Paths : Alone(FillPath(p))
    \/ \E p \in Paths : Alone(StrokePath(p))
    \/ \E p \in Paths, gt \in Transforms : Alone(FillGlyph(p, gt))
    \/ \E p \in Paths, gt \in Transforms : Alone(StrokeGlyph(p, gt))
    \/ Alone(Reset)
    \/ Alone(PrepareRenderData)

Spec == Init /\ [][Next]_vars

(***************************************************************************)
(* The packer alone: prepare_render_data is a function of the Scene it     *)
(* reads, so it is also run on Scenes whose grid, table and alpha buffer   *)
(* are drawn from the values their types hold, among them wide tiles with  *)
(* a background and alpha offsets near the end of the u32 range.           *)
(***************************************************************************)
\* EncodedPaint::Image and an EncodedPaint of another kind
AnEncodedImage == EncodedImage(ImagePaint("Pad", "Reflect", TranslateX8))
AnEncodedGradient == [tag |-> "Gradient"]

\* alpha offsets: small, large, the largest whose column fits u32, the first
\* whose column does not
AlphaOffsets ==
    { Usize(6),
      [h |-> 3, l |-> 5],
      [h |-> Tile_HEIGHT * Limb - 1, l |-> Limb - 1],
      [h |-> Tile_HEIGHT * Limb, l |-> 0] }

PackerPaints == { PaintSolid(TRANSLUCENT), PaintIndexed(0) }

\* the command lists of the wide tiles that vary
PackerCmdLists ==
    { << >> }
    \cup { << [tag |-> "Fill", x |-> 16, width |-> 8, paint |-> pt, draw |-> 0] >> :
             pt \in PackerPaints }
    \cup { << [tag |-> "AlphaFill", x |-> 40, width |-> 2, alpha_idx |-> k,
               paint |-> pt, draw |-> 0],
              [tag |-> "Fill", x |-> 8, width |-> 4, paint |-> PaintSolid(BLACK),
               draw |-> 0] >> :
             k \in AlphaOffsets, pt \in PackerPaints }

PackInit ==
    /\ target_endian \in { "little", "big" }
    /\ \E sz \in Sizes :
         /\ width = sz[1]
         /\ height = sz[2]
         /\ \E bg1 \in { TRANSPARENT, BLACK }, c1 \in PackerCmdLists,
               bg4 \in { TRANSPARENT, TRANSLUCENT }, c4 \in PackerCmdLists :
              wide = [ WideNew(sz[1], sz[2]) EXCEPT
                         ![1] = [bg |-> bg1, cmds |-> c1],
                         ![Len(WideNew(sz[1], sz[2]))] = [bg |-> bg4, cmds |-> c4] ]
    /\ alphas \in { << >>, << 128, 128, 128, 128 >> }
    /\ line_buf = << >>
    /\ tiles = << >>
    /\ strip_buf = << >>
    /\ encoded_paints \in { << >>, << AnEncodedImage >>, << AnEncodedGradient >> }
    /\ upload_paints = << >>
    /\ paint = DefaultRenderState.paint
    /\ stroke = DefaultRenderState.stroke
    /\ transform = DefaultRenderState.transform
    /\ fill_rule = DefaultRenderState.fill_rule
    /\ blend_mode = DefaultRenderState.blend_mode
    /\ rd = NoRenderData
    /\ rd_src = << >>
    /\ panicked = FALSE
    /\ last_call = "new"
    /\ n_draws = 0
    /\ n_calls = 0
    /\ since_reset = "new"
    /\ resources = None
    /\ written = NoWrites
    /\ ops = << >>
    /\ replay = 0
    /\ images = NoImages
    /\ bind_group_layout = None
    /\ visited = None

PackNext == Alone(PrepareRenderData)

PackSpec == PackInit /\ [][PackNext]_vars

(***************************************************************************)
(* fill_rect of the rectangle that covers the surface, on surfaces of      *)
(* several sizes: one and two wide tiles per row, one and two rows, and    *)
(* heights that are and are not multiples of Tile::HEIGHT.                 *)
(***************************************************************************)
RectSizes == { << w, h >> : w \in { 8, 260, 300 }, h \in { 4, 6, 8 } }

\* Scene::new(w, h) for the sizes of RectSizes
RectInit ==
    /\ target_endian \in { "little", "big" }
    /\ \E sz \in RectSizes :
         /\ width = sz[1]
         /\ height = sz[2]
         /\ wide = WideNew(sz[1], sz[2])
    /\ alphas = << >>
    /\ line_buf = << >>
    /\ tiles = << >>
    /\ strip_buf = << >>
    /\ encoded_paints = << >>
    /\ upload_paints = << >>
    /\ paint = DefaultRenderState.paint
    /\ stroke = DefaultRenderState.stroke
    /\ transform = DefaultRenderState.transform
    /\ fill_rule = DefaultRenderState.fill_rule
    /\ blend_mode = DefaultRenderState.blend_mode
    /\ rd = NoRenderData
    /\ rd_src = << >>
    /\ panicked = FALSE
    /\ last_call = "new"
    /\ n_draws = 0
    /\ n_calls = 0
    /\ since_reset = "new"
    /\ resources = None
    /\ written = NoWrites
    /\ ops = << >>
    /\ replay = 0
    /\ images = NoImages
    /\ bind_group_layout = None
    /\ visited = None

RectNext ==
    \/ Alone(FillRect(SurfaceRect))
    \/ Alone(PrepareRenderData)

RectSpec == RectInit /\ [][RectNext]_vars

(***************************************************************************)
(* Renderer::prepare (gpu.rs): the hand-off of a RenderData to the GPU.    *)
(* The buffer and the texture are held by their sizes, the queue by what   *)
(* it was last told to write.                                              *)
(***************************************************************************)
\* std::mem::size_of::<GpuStrip>() of gpu.rs' GpuStrip: four u16, two u32
SizeOfGpuStrip == 16

\* a GpuStrip of gpu.rs
AGpuStrip == [x |-> 0, y |-> 0, width |-> 4, dense_width |-> 4, col |-> 0, rgba |-> 255]

\* the RenderData values handed to Renderer::prepare: one to MaxStrips
\* strips and one alpha value up to one more than the largest texture holds
\* (what wgpu does with an empty buffer or texture is not the Renderer's
\* code); alpha value i is the number i
RenderDatas ==
    { [ strips |-> Repeat(AGpuStrip, k), alphas |-> [ i \in 1..n |-> i ] ] :
        k \in 1..MaxStrips,
        n \in 1..(MaxTextureDimension2d * MaxTextureDimension2d + 1) }

\* Vec::resize(n, 0): cut to n values, or filled up with zeros
Resize(v, n) == [ i \in 1..n |-> IF i <= Len(v) THEN v[i] ELSE 0 ]

\* Renderer::prepare
Prepare(render_data) ==
    /\ ~panicked
    /\ n_calls < MaxCalls
    /\ rd' = render_data
    /\ LET required_strips_size == SizeOfGpuStrip * Len(render_data.strips)
           needs_new_resources ==
               IF resources = None THEN TRUE
               ELSE required_strips_size > resources.strips_buffer
           max_texture_dimension_2d == MaxTextureDimension2d
           alpha_len == Len(render_data.alphas)
           alpha_texture_height == DivCeil(alpha_len, max_texture_dimension_2d)
       IN  IF needs_new_resources /\ ~(alpha_texture_height <= max_texture_dimension_2d)
           THEN /\ panicked' = TRUE
                /\ UNCHANGED << resources, written >>
           ELSE \E res \in { IF needs_new_resources
                             THEN [ strips_buffer |-> required_strips_size,
                                    alphas_texture |->
                                        [ width |-> max_texture_dimension_2d,
                                          height |-> alpha_texture_height ] ]
                             ELSE resources } :
                  /\ panicked' = FALSE
                  /\ resources' = res
                  /\ written' =
                         [ strips |-> render_data.strips,
                           alpha_data |-> Resize(render_data.alphas,
                                                 res.alphas_texture.width
                                                 * res.alphas_texture.height),
                           texture_width |-> res.alphas_texture.width,
                           texture_height |-> res.alphas_texture.height ]
    /\ last_call' = "prepare"
    /\ n_calls' = n_calls + 1
    /\ UNCHANGED << target_endian, sceneVars, rd_src, n_draws, since_reset, twinVars,
                    cacheVars, loopVars >>

RendererNext == \E render_data \in RenderDatas : Prepare(render_data)

\* any sequence of Renderer::prepare calls on one Renderer
RendererSpec == Init /\ [][RendererNext]_vars

(***************************************************************************)
(* ImageCache (image_cache.rs): the images by id, each with its texture,   *)
(* its view and, once made, its bind group; and the bind group layout.     *)
(* GPU objects are held by what they were made from.                       *)
(***************************************************************************)
\* the ids images are uploaded under
ImageIds == { 1, 2 }

\* the textures uploaded: width, height and data of upload_image
ImageTextures ==
    { [width |-> 1, height |-> 1, data |-> << 255, 0, 0, 255 >>],
      [width |-> 1, height |-> 2, data |-> << 0, 0, 0, 255, 0, 0, 0, 0 >>] }

\* HashMap::insert
Insert(map, k, v) == [ id \in DOMAIN map \cup { k } |-> IF id = k THEN v ELSE map[id] ]

\* HashMap::remove
Remove(map, k) == [ id \in DOMAIN map \ { k } |-> map[id] ]

\* what a call on the ImageCache leaves alone: the Scene and the Renderer
CacheCall(op) ==
    /\ last_call' = op
    /\ UNCHANGED << target_endian, sceneVars, rd, rd_src, panicked, n_draws, n_calls,
                    since_reset, rendererVars, twinVars, loopVars >>

\* ImageCache::create_bind_group
CreateBindGroup ==
    /\ bind_group_layout' = Some("Image Texture Bind Group Layout")
    /\ UNCHANGED images
    /\ CacheCall("create_bind_group")

\* ImageCache::upload_image
UploadImage(id, texture) ==
    /\ images' = Insert(images, id, [texture |-> texture, view |-> texture,
                                      bind_group |-> None])
    /\ UNCHANGED bind_group_layout
    /\ CacheCall("upload_image")

\* ImageCache::remove_image
RemoveImage(id) ==
    /\ images' = Remove(images, id)
    /\ UNCHANGED bind_group_layout
    /\ CacheCall("remove_image")

\* ImageCache::create_bind_groups
CreateBindGroups ==
    /\ IF bind_group_layout # None
       THEN images' =
                [ id \in DOMAIN images |->
                    [ images[id] EXCEPT !.bind_group =
                        Some([layout |-> bind_group_layout.val, view |-> images[id].view]) ] ]
       ELSE UNCHANGED images
    /\ UNCHANGED bind_group_layout
    /\ CacheCall("create_bind_groups")

CacheNext ==
    \/ CreateBindGroup
    \/ \E id \in ImageIds, texture \in ImageTextures : UploadImage(id, texture)
    \/ \E id \in ImageIds : RemoveImage(id)
    \/ CreateBindGroups

\* any sequence of calls on one ImageCache, from ImageCache::new
CacheSpec == Init /\ [][CacheNext]_vars

(***************************************************************************)
(* Two Scenes of equal dimensions that get the same calls: the first       *)
(* Scene's calls are recorded with what each returned; then a second Scene *)
(* is made and gets the recorded calls, one by one.                        *)
(***************************************************************************)
\* call d may be made now: any call on the first Scene, the recorded one on
\* the second
Replayable(d) ==
    IF replay = 0 THEN TRUE
    ELSE IF replay <= Len(ops) THEN ops[replay].call = d
    ELSE FALSE

\* call d was made: recorded with its outcome for the first Scene, ticked
\* off for the second
Recorded(d) ==
    IF replay = 0
    THEN /\ ops' = Append(ops, [call |-> d, rd |-> rd', panicked |-> panicked'])
         /\ replay' = 0
    ELSE /\ ops' = ops
         /\ replay' = replay + 1

\* call d, made by action A, on whichever Scene is the current one
OnScene(d, A) ==
    Replayable(d) /\ A /\ Recorded(d) /\ UNCHANGED << rendererVars, cacheVars, loopVars >>

\* Scene::new(width, height) for the second Scene, once the first has
\* returned a RenderData or has panicked
NewScene ==
    /\ replay = 0
    /\ last_call = "prepare_render_data" \/ panicked
    /\ replay' = 1
    /\ wide' = WideNew(width, height)
    /\ alphas' = << >>
    /\ line_buf' = << >>
    /\ tiles' = << >>
    /\ strip_buf' = << >>
    /\ encoded_paints' = << >>
    /\ upload_paints' = << >>
    /\ paint' = DefaultRenderState.paint
    /\ stroke' = DefaultRenderState.stroke
    /\ transform' = DefaultRenderState.transform
    /\ fill_rule' = DefaultRenderState.fill_rule
    /\ blend_mode' = DefaultRenderState.blend_mode
    /\ rd' = NoRenderData
    /\ rd_src' = << >>
    /\ panicked' = FALSE
    /\ last_call' = "new"
    /\ n_draws' = 0
    /\ n_calls' = 0
    /\ since_reset' = "new"
    /\ UNCHANGED << target_endian, width, height, ops, rendererVars, cacheVars,
                    loopVars >>

\* the arguments the two Scenes are called with: fewer than Next's, every
\* call among them
TwinFillRules == { "EvenOdd" }
TwinTransforms == { TranslateX8 }
TwinGlyphs == { 2 }

TwinNext ==
    \/ \E b \in BlendModes : OnScene(<< "set_blend_mode", b >>, SetBlendMode(b))
    \/ \E st \in Strokes : OnScene(<< "set_stroke", st >>, SetStroke(st))
    \/ \E pt \in PaintTypes : OnScene(<< "set_paint", pt >>, SetPaint(pt))
    \/ \E f \in TwinFillRules : OnScene(<< "set_fill_rule", f >>, SetFillRule(f))
    \/ \E t \in TwinTransforms : OnScene(<< "set_transform", t >>, SetTransform(t))
    \/ OnScene(<< "reset_transform" >>, ResetTransform)
    \/ \E p \in Paths : OnScene(<< "fill_path", p >>, FillPath(p))
    \/ \E p \in Paths : OnScene(<< "stroke_path", p >>, StrokePath(p))
    \/ \E p \in TwinGlyphs, gt \in TwinTransforms :
         OnScene(<< "fill_glyph", p, gt >>, FillGlyph(p, gt))
    \/ \E p \in TwinGlyphs, gt \in TwinTransforms :
         OnScene(<< "stroke_glyph", p, gt >>, StrokeGlyph(p, gt))
    \/ OnScene(<< "reset" >>, Reset)
    \/ OnScene(<< "prepare_render_data" >>, PrepareRenderData)
    \/ NewScene

TwinSpec == Init /\ [][TwinNext]_vars

(***************************************************************************)
(* The fill rule: the draw calls of Scene, among them fill_rect and        *)
(* stroke_rect, between set_fill_rule and reset.  Outlines that coincide   *)
(* are covered twice, which is where the two rules differ.                 *)
(***************************************************************************)
\* the outlines drawn: a path, and the rectangle that covers the surface
RulePaths == { 1 }
RuleGlyphTransforms == { IDENTITY }

RuleNext ==
    \/ \E f \in FillRules : Alone(SetFillRule(f))
    \/ \E p \in RulePaths : Alone(FillPath(p))
    \/ Alone(FillRect(SurfaceRect))
    \/ \E p \in RulePaths : Alone(StrokePath(p))
    \/ Alone(StrokeRect(SurfaceRect))
    \/ \E p \in RulePaths, gt \in RuleGlyphTransforms : Alone(FillGlyph(p, gt))
    \/ \E p \in RulePaths, gt \in RuleGlyphTransforms : Alone(StrokeGlyph(p, gt))
    \/ Alone(Reset)

RuleSpec == Init /\ [][RuleNext]_vars

(***************************************************************************)
(* The 16-bit position arithmetic of prepare_render_data, on surfaces at   *)
(* the ends of the u16 range.  A grid is held whole only when one of its   *)
(* dimensions is small; on a grid of many wide tiles the body of the loops *)
(* is run for single iterations, at the corners of the grid.               *)
(***************************************************************************)
GridWidths == { 0, 1, 256, 257, 65280, 65281, 65535 }
GridHeights == { 0, 1, 4, 5, 65532, 65533, 65535 }

\* Scene::new(width, height): every width with a small height, every height
\* with a small width
GridSizes ==
    { << w, h >> : w \in GridWidths, h \in { 0, 1, 4, 5 } }
    \cup { << w, h >> : w \in { 1, 257 }, h \in GridHeights }

\* the commands of a wide tile: a Fill and an AlphaFill at column x
GridCmds(x) ==
    << [tag |-> "Fill", x |-> x, width |-> 1, paint |-> PaintSolid(BLACK), draw |-> 0],
       [tag |-> "AlphaFill", x |-> x, width |-> 1, alpha_idx |-> Usize(0),
        paint |-> PaintSolid(BLACK), draw |-> 0] >>

\* a Scene of one of GridSizes whose last wide tile has a background and
\* commands at the first or the last column of the wide tile
GridInit ==
    /\ target_endian \in { "little", "big" }
    /\ \E sz \in GridSizes, x \in { 0, WideTile_WIDTH - 1 } :
         /\ width = sz[1]
         /\ height = sz[2]
         /\ wide = IF Len(WideNew(sz[1], sz[2])) = 0
                   THEN WideNew(sz[1], sz[2])
                   ELSE [ WideNew(sz[1], sz[2]) EXCEPT
                            ![Len(WideNew(sz[1], sz[2]))] =
                                [bg |-> BLACK, cmds |-> GridCmds(x)] ]
    /\ alphas = << 128, 128, 128, 128 >>
    /\ line_buf = << >>
    /\ tiles = << >>
    /\ strip_buf = << >>
    /\ encoded_paints = << >>
    /\ upload_paints = << >>
    /\ paint = DefaultRenderState.paint
    /\ stroke = DefaultRenderState.stroke
    /\ transform = DefaultRenderState.transform
    /\ fill_rule = DefaultRenderState.fill_rule
    /\ blend_mode = DefaultRenderState.blend_mode
    /\ rd = NoRenderData
    /\ rd_src = << >>
    /\ panicked = FALSE
    /\ last_call = "new"
    /\ n_draws = 0
    /\ n_calls = 0
    /\ since_reset = "new"
    /\ resources = None
    /\ written = NoWrites
    /\ ops = << >>
    /\ replay = 0
    /\ images = NoImages
    /\ bind_group_layout = None
    /\ visited = None

\* one iteration of the two loops of prepare_render_data, run on its own
PackWideTile(wide_tile_row, wide_tile_col) ==
    LET wide_tiles_per_row == DivCeil(width, WideTile_WIDTH)
        wide_tiles_per_col == DivCeil(height, Tile_HEIGHT)
    IN  /\ ~panicked
        /\ wide_tile_row \in 0..(wide_tiles_per_col - 1)
        /\ wide_tile_col \in 0..(wide_tiles_per_row - 1)
        /\ visited' = Some([ wide_tile_row |-> wide_tile_row,
                             wide_tile_col |-> wide_tile_col,
                             packed |-> PackTile(wide_tile_row, wide_tile_col,
                                                 wide_tiles_per_row) ])
        /\ UNCHANGED << target_endian, sceneVars, rd, rd_src, panicked, histVars,
                        rendererVars, twinVars, cacheVars >>

\* prepare_render_data as a whole, on a grid of at most MaxPackedTiles tiles
PackWholeGrid == Len(wide) <= MaxPackedTiles /\ Alone(PrepareRenderData)

GridNext ==
    \/ \E wide_tile_row \in { 0, 1, DivCeil(height, Tile_HEIGHT) - 1 },
          wide_tile_col \in { 0, 1, DivCeil(width, WideTile_WIDTH) - 1 } :
         PackWideTile(wide_tile_row, wide_tile_col)
    \/ PackWholeGrid

GridSpec == GridInit /\ [][GridNext]_vars

(***************************************************************************)
(* Properties.                                                             *)
(***************************************************************************)
\* rd is the output of the last call, and the Scene still is as that call
\* read it
Prepared == last_call = "prepare_render_data" /\ ~panicked

\* row-major order of two (row, column) pairs
RowMajorLeq(y1, x1, y2, x2) == y1 < y2 \/ (y1 = y2 /\ x1 <= x2)

\* C1, as stated: the records of every RenderData are sorted by (y, x):
\* each record's (y, x) is at most the next record's.
C1_SortedByYX ==
    \A i \in 1..(Len(rd.strips) - 1) :
        RowMajorLeq(rd.strips[i].y, rd.strips[i].x,
                    rd.strips[i + 1].y, rd.strips[i + 1].x)

\* C1, amended: the records of every RenderData are sorted by wide tile in
\* row-major order: each record's (y, x div WideTile::WIDTH) is at most the
\* next record's.  Within one wide tile the records keep the draw order.
C1_SortedByWideTile ==
    \A i \in 1..(Len(rd.strips) - 1) :
        RowMajorLeq(rd.strips[i].y, rd.strips[i].x \div WideTile_WIDTH,
                    rd.strips[i + 1].y, rd.strips[i + 1].x \div WideTile_WIDTH)

\* C1's case: a RenderData of two draws, of wide tiles in both rows and both
\* columns, in which a record lies left of its predecessor in the same tile
C1_Witness ==
    /\ Prepared
    /\ n_draws = 2
    /\ \E i \in 1..(Len(rd.strips) - 1) :
         /\ rd_src[i].tile = rd_src[i + 1].tile
         /\ rd.strips[i + 1].x < rd.strips[i].x
    /\ \E i, j \in 1..Len(rd.strips) :
         /\ rd.strips[i].y # rd.strips[j].y
         /\ rd.strips[i].x \div WideTile_WIDTH # rd.strips[j].x \div WideTile_WIDTH

\* C2: a prepare_render_data after a reset, with no draw in between,
\* returns no record and an empty alpha buffer.
C2_ResetThenPrepareEmpty ==
    (Prepared /\ since_reset = "reset") =>
        (rd.strips = << >> /\ rd.alphas = << >>)

\* C2's case: draws filled the grid and the alpha buffer, then reset, then
\* prepare_render_data
C2_Witness ==
    /\ Prepared
    /\ since_reset = "reset"
    /\ n_draws > 0

\* the command a record of rd came from, while the grid is the one packed
CmdOf(from) == wide[from.tile + 1].cmds[from.ci]

\* an indexed paint with no entry in the table, or whose entry is no image
Unresolved(pt) ==
    /\ pt.tag = "Indexed"
    /\ \/ pt.index >= Len(encoded_paints)
       \/ encoded_paints[pt.index + 1].tag # "Image"

C4_AlphaFillTaggedAlpha ==
    Prepared =>
        \A i \in 1..Len(rd.strips) :
            rd_src[i].kind = "AlphaFill" =>
                /\ rd.strips[i].paint_type = 1
                /\ rd.strips[i].dense_width = CmdOf(rd_src[i]).width

\* C4, amended: every record of an AlphaFill command has dense_width equal
\* to the command's width; its paint_type is 1 when the command's paint is
\* solid and 2 when it is an indexed image.
C4_AlphaFillTagByPaint ==
    Prepared =>
        \A i \in 1..Len(rd.strips) :
            rd_src[i].kind = "AlphaFill" =>
                /\ rd.strips[i].dense_width = CmdOf(rd_src[i]).width
                /\ CmdOf(rd_src[i]).paint.tag = "Solid" => rd.strips[i].paint_type = 1
                /\ ( /\ CmdOf(rd_src[i]).paint.tag = "Indexed"
                     /\ ~Unresolved(CmdOf(rd_src[i]).paint) )
                   => rd.strips[i].paint_type = 2

\* C4's case: the record of an AlphaFill command drawn with an image paint
C4_Witness ==
    /\ Prepared
    /\ \E i \in 1..Len(rd.strips) :
         /\ rd_src[i].kind = "AlphaFill"
         /\ CmdOf(rd_src[i]).paint.tag = "Indexed"
         /\ CmdOf(rd_src[i]).width > 0

\* C5: in every packed output a record of an AlphaFill command has
\* dense_width = width (the command's), and a record of a background or of a
\* Fill command has dense_width = 0.
C5_DenseWidth ==
    Prepared =>
        \A i \in 1..Len(rd.strips) :
            /\ rd_src[i].kind = "AlphaFill" =>
                 /\ rd.strips[i].dense_width = rd.strips[i].width
                 /\ rd.strips[i].width = CmdOf(rd_src[i]).width
            /\ rd_src[i].kind \in { "bg", "Fill" } => rd.strips[i].dense_width = 0

\* C5's case: an output with a background record, a Fill record and an
\* AlphaFill record, all of nonzero width
C5_Witness ==
    /\ Prepared
    /\ \A kind \in { "bg", "Fill", "AlphaFill" } :
         \E i \in 1..Len(rd.strips) :
             rd_src[i].kind = kind /\ rd.strips[i].width > 0

\* q = k div Tile::HEIGHT, stated by multiplying back: Tile::HEIGHT * q is
\* k less its remainder (q a u32, k a usize, both as 16-bit limbs)
IsAlphaColumn(q, k) ==
    /\ k.h = Tile_HEIGHT * q.hi + (Tile_HEIGHT * q.lo) \div Limb
    /\ k.l - (k.l % Tile_HEIGHT) = (Tile_HEIGHT * q.lo) % Limb

\* C6: the record of a solid AlphaFill command with alpha offset k has
\* paint_type 1, the colour's packed RGBA as paint_data and k div
\* Tile::HEIGHT as paint_index; when that quotient does not fit the u32
\* paint_index, prepare_render_data fails.
C6_AlphaColumn ==
    last_call = "prepare_render_data" =>
        /\ ( \E k \in 1..Len(wide) : \E i \in 1..Len(wide[k].cmds) :
               /\ wide[k].cmds[i].tag = "AlphaFill"
               /\ wide[k].cmds[i].paint.tag = "Solid"
               /\ wide[k].cmds[i].alpha_idx.h >= Tile_HEIGHT * Limb )
           => panicked
        /\ ~panicked =>
             \A i \in 1..Len(rd.strips) :
                 ( /\ rd_src[i].kind = "AlphaFill"
                   /\ CmdOf(rd_src[i]).paint.tag = "Solid" )
                 => /\ rd.strips[i].paint_type = 1
                    /\ rd.strips[i].paint_data =
                         ColorToU32(CmdOf(rd_src[i]).paint.color, target_endian)
                    /\ IsAlphaColumn(rd.strips[i].paint_index,
                                     CmdOf(rd_src[i]).alpha_idx)

\* C6's case: a solid AlphaFill record whose offset is no multiple of
\* Tile::HEIGHT and whose column needs the upper half of the u32
C6_Witness ==
    /\ Prepared
    /\ \E i \in 1..Len(rd.strips) :
         /\ rd_src[i].kind = "AlphaFill"
         /\ CmdOf(rd_src[i]).paint.tag = "Solid"
         /\ CmdOf(rd_src[i]).alpha_idx.l % Tile_HEIGHT # 0
         /\ rd.strips[i].paint_index.hi > 0

\* the backgrounds and commands of the grid: <<tile index, 0>> for a
\* background that packs to a nonzero word, <<tile index, i>> for command i
Origins ==
    { << k - 1, 0 >> : k \in { k \in 1..Len(wide) :
                                 ColorToU32(wide[k].bg, target_endian) # U32Zero } }
    \cup UNION { { << k - 1, i >> : i \in 1..Len(wide[k].cmds) } : k \in 1..Len(wide) }

\* the wide tiles of a row of the grid
WideTilesPerRow == DivCeil(width, WideTile_WIDTH)

\* C7: the wide tiles are visited in row-major order; each contributes its
\* background record (only when the background packs to a nonzero word) and
\* then one record per command, in command order; there are as many records
\* as wide tiles with such a background plus commands.
C7_OneRecordPerBgAndCmd ==
    Prepared =>
        /\ Len(rd.strips) = Cardinality(Origins)
        /\ \A i \in 1..Len(rd.strips) :
             /\ << rd_src[i].tile, rd_src[i].ci >> \in Origins
             /\ rd.strips[i].y = (rd_src[i].tile \div WideTilesPerRow) * Tile_HEIGHT
             /\ rd.strips[i].x \div WideTile_WIDTH = rd_src[i].tile % WideTilesPerRow
             /\ IF rd_src[i].ci = 0
                THEN /\ rd.strips[i].paint_data =
                          ColorToU32(wide[rd_src[i].tile + 1].bg, target_endian)
                     /\ rd.strips[i].width = WideTile_WIDTH
                     /\ rd.strips[i].x % WideTile_WIDTH = 0
                ELSE /\ rd.strips[i].width = CmdOf(rd_src[i]).width
                     /\ rd.strips[i].x % WideTile_WIDTH = CmdOf(rd_src[i]).x
        /\ \A i \in 1..(Len(rd.strips) - 1) :
             \/ rd_src[i].tile < rd_src[i + 1].tile
             \/ /\ rd_src[i].tile = rd_src[i + 1].tile
                /\ rd_src[i].ci < rd_src[i + 1].ci

\* C7's case: an output with a background record followed by the records of
\* two commands of its wide tile, and records of a wide tile of another row
C7_Witness ==
    /\ Prepared
    /\ \E i \in 1..(Len(rd.strips) - 2) :
         /\ rd_src[i].ci = 0
         /\ rd_src[i + 2].tile = rd_src[i].tile
    /\ \E i, j \in 1..Len(rd.strips) : rd.strips[i].y # rd.strips[j].y
    /\ \E k \in 1..Len(wide) : wide[k].bg = TRANSPARENT

IsPrefix(a, b) == Len(a) <= Len(b) /\ SubSeq(b, 1, Len(a)) = a

\* a step that is a draw call
DrawStep == n_draws' = n_draws + 1

\* C8: a draw call only appends commands to the wide tiles (every wide
\* tile's earlier commands stay, in place, and its background stays), and in
\* every RenderData the records of an earlier draw precede, within a wide
\* tile, those of a later draw, with a record for every command.
C8_DrawsAppend ==
    /\ [][ DrawStep =>
             \A k \in 1..Len(wide) :
                 /\ wide'[k].bg = wide[k].bg
                 /\ IsPrefix(wide[k].cmds, wide'[k].cmds)
                 /\ \A i \in (Len(wide[k].cmds) + 1)..Len(wide'[k].cmds) :
                      wide'[k].cmds[i].draw = n_draws' ]_vars
    /\ [](\A i, j \in 1..Len(rd_src) :
              (i < j /\ rd_src[i].tile = rd_src[j].tile)
              => rd_src[i].draw <= rd_src[j].draw)
    /\ [](Prepared =>
              \A k \in 1..Len(wide) : \A c \in 1..Len(wide[k].cmds) :
                  \E i \in 1..Len(rd_src) :
                      rd_src[i].tile = k - 1 /\ rd_src[i].ci = c)

\* C8's case: an output in which a wide tile has a record of the first draw
\* and, after it, one of the second
C8_Witness ==
    /\ Prepared
    /\ \E i, j \in 1..Len(rd_src) :
         /\ i < j
         /\ rd_src[i].tile = rd_src[j].tile
         /\ rd_src[i].draw = 1
         /\ rd_src[j].draw = 2

\* C9: a draw call made while the current paint is neither Solid nor Image
\* fails, and leaves the wide tiles, the alpha buffer, the encoded-paint
\* table and the upload queue as they were.
C9_UnsupportedPaintFails ==
    [][ (DrawStep /\ paint.tag \notin { "Solid", "Image" }) =>
          /\ panicked'
          /\ wide' = wide
          /\ alphas' = alphas
          /\ encoded_paints' = encoded_paints
          /\ upload_paints' = upload_paints ]_vars

\* C9's case: a draw call was made with a gradient paint
C9_Witness ==
    /\ last_call \in DrawOps
    /\ paint.tag = "Gradient"
    /\ panicked

\* a step that is a call of prepare_render_data
PrepareStep == last_call' = "prepare_render_data" /\ n_calls' = n_calls + 1

\* C10: prepare_render_data leaves the Scene as it was, two calls in a row
\* return the same RenderData, and no other call changes a RenderData
\* returned earlier.
C10_Snapshot ==
    [][ /\ PrepareStep =>
             /\ sceneVars' = sceneVars
             /\ (Prepared /\ ~panicked') => rd' = rd
        /\ ~PrepareStep => rd' = rd ]_vars

\* C10's case: the Scene was reset after a RenderData with alpha bytes was
\* returned, and the RenderData still has them
C10_Witness ==
    /\ last_call = "reset"
    /\ alphas = << >>
    /\ rd.alphas # << >>
    /\ rd.strips # << >>

\* C11: the upload queue holds every index of the encoded-paint table at
\* most once, whatever calls were made.
C11_UploadQueueDistinct ==
    \A i, j \in 1..Len(upload_paints) :
        upload_paints[i].index = upload_paints[j].index => i = j

\* C11's case: two draws with an image paint queued two paints
C11_Witness ==
    /\ Len(upload_paints) >= 2
    /\ n_draws >= 2
    /\ ~panicked

\* the paints of the commands draw number d left in grid w
PaintsOfDraw(w, d) ==
    UNION { { w[k].cmds[i].paint : i \in { i \in 1..Len(w[k].cmds) : w[k].cmds[i].draw = d } } :
            k \in 1..Len(w) }

\* C12: a draw with a solid paint gives its commands Paint::Solid of that
\* colour and leaves the encoded-paint table and the upload queue as they
\* were; a draw with an image paint appends exactly one EncodedPaint::Image,
\* whose transform is the current transform composed with the paint's own,
\* and gives its commands Paint::Indexed of the new entry's position.
C12_PaintResolution ==
    [][ (DrawStep /\ ~panicked') =>
          /\ paint.tag = "Solid" =>
               /\ encoded_paints' = encoded_paints
               /\ upload_paints' = upload_paints
               /\ PaintsOfDraw(wide', n_draws') \subseteq { PaintSolid(paint.color) }
          /\ paint.tag = "Image" =>
               /\ Len(encoded_paints') = Len(encoded_paints) + 1
               /\ IsPrefix(encoded_paints, encoded_paints')
               /\ encoded_paints'[Len(encoded_paints')].tag = "Image"
               /\ encoded_paints'[Len(encoded_paints')].transform =
                      AffineMul(transform, paint.transform)
               /\ PaintsOfDraw(wide', n_draws') \subseteq
                      { PaintIndexed(Len(encoded_paints)) } ]_vars

\* C12's case: a draw with an image paint under a transform that is not the
\* identity left commands in the grid
C12_Witness ==
    /\ last_call \in DrawOps
    /\ ~panicked
    /\ paint.tag = "Image"
    /\ transform # IDENTITY
    /\ PaintsOfDraw(wide, n_draws) # {}

\* C13: the record of a Fill command whose indexed paint resolves to an
\* image has paint_type 2; its paint_index packs (u0, v0), the entry's
\* transform applied to (wide_tile_x + cmd.x, wide_tile_y) and cast to u16;
\* its paint_data packs the codes of (extend_x, extend_y); its advances are
\* the entry's.
C13_ImageFillRecord ==
    Prepared =>
        \A i \in 1..Len(rd.strips) :
            ( /\ rd_src[i].kind = "Fill"
              /\ CmdOf(rd_src[i]).paint.tag = "Indexed"
              /\ ~Unresolved(CmdOf(rd_src[i]).paint) )
            => LET cmd == CmdOf(rd_src[i])
                   e == encoded_paints[cmd.paint.index + 1]
                   wide_tile_x == (rd_src[i].tile % WideTilesPerRow) * WideTile_WIDTH
                   wide_tile_y == (rd_src[i].tile \div WideTilesPerRow) * Tile_HEIGHT
                   p == AffineApply(e.transform, wide_tile_x + cmd.x, wide_tile_y)
               IN  /\ rd.strips[i].paint_type = 2
                   /\ rd.strips[i].paint_index = pack_u16s_to_u32(AsU16(p[1]), AsU16(p[2]))
                   /\ rd.strips[i].paint_data =
                          pack_u16s_to_u32(ExtendCode(e.extends[1]), ExtendCode(e.extends[2]))
                   /\ rd.strips[i].x_advance = e.x_advance
                   /\ rd.strips[i].y_advance = e.y_advance

\* C13's case: the record of an image Fill command of a wide tile that is
\* not at the origin
C13_Witness ==
    /\ Prepared
    /\ \E i \in 1..Len(rd.strips) :
         /\ rd_src[i].kind = "Fill"
         /\ CmdOf(rd_src[i]).paint.tag = "Indexed"
         /\ ~Unresolved(CmdOf(rd_src[i]).paint)
         /\ rd_src[i].tile > 0
         /\ rd.strips[i].x > WideTile_WIDTH
         /\ rd.strips[i].y > 0

\* a step that is a call of reset
ResetStep == last_call' = "reset" /\ n_calls' = n_calls + 1

\* C14: no call but reset shortens the alpha buffer or changes a byte
\* written earlier (a draw call only appends to it), and reset empties it.
C14_AlphasAppendOnly ==
    [][ /\ ~ResetStep => IsPrefix(alphas, alphas')
        /\ ResetStep => alphas' = << >> ]_vars

\* C14's case: a second draw without a reset in between added alpha bytes
\* behind those of the first
C14_Witness ==
    /\ n_draws = 2
    /\ since_reset = "drawn"
    /\ last_call \in DrawOps
    /\ ~panicked
    /\ \E i, j \in 1..Len(alphas) : alphas[i] # alphas[j]

\* C15: after reset every field of the Scene is what Scene::new gives for
\* the same width and height.
C15_ResetRestoresNew ==
    last_call = "reset" =>
        /\ wide = WideNew(width, height)
        /\ alphas = << >>
        /\ line_buf = << >>
        /\ tiles = << >>
        /\ strip_buf = << >>
        /\ encoded_paints = << >>
        /\ upload_paints = << >>
        /\ paint = DefaultRenderState.paint
        /\ stroke = DefaultRenderState.stroke
        /\ transform = DefaultRenderState.transform
        /\ fill_rule = DefaultRenderState.fill_rule
        /\ blend_mode = DefaultRenderState.blend_mode

\* C16: when fill_path or stroke_path has returned, the line buffer is
\* empty: it holds no line of that draw or of an earlier one.
C16_LineBufClearedAfterDraw ==
    (last_call \in { "fill_path", "stroke_path" } /\ ~panicked) => line_buf = << >>

\* C20: pack_u16s_to_u32(a, b) = a * 65536 + b: in every image record the
\* high half of paint_index is u0 and the low half v0, and the high half of
\* paint_data is the code of extend_x and the low half that of extend_y.
C20_FirstInHighBits ==
    Prepared =>
        \A i \in 1..Len(rd.strips) :
            ( /\ rd_src[i].kind \in { "Fill", "AlphaFill" }
              /\ CmdOf(rd_src[i]).paint.tag = "Indexed"
              /\ ~Unresolved(CmdOf(rd_src[i]).paint) )
            => LET e == encoded_paints[CmdOf(rd_src[i]).paint.index + 1]
                   p == AffineApply(e.transform, rd.strips[i].x, rd.strips[i].y)
               IN  /\ rd.strips[i].paint_index = U32(AsU16(p[1]), AsU16(p[2]))
                   /\ rd.strips[i].paint_data =
                          U32(ExtendCode(e.extends[1]), ExtendCode(e.extends[2]))

C19_CapacityViolationFails ==
    ( /\ last_call = "prepare"
      /\ Len(rd.alphas) > MaxTextureDimension2d * MaxTextureDimension2d )
    => panicked

\* C18: on a new Scene of any size, fill_rect of the opaque rectangle that
\* covers the surface, then prepare_render_data, gives exactly one record
\* per wide tile, each with dense_width 0, and an empty alpha buffer.
C18_FullRectOneOpaquePerTile ==
    (Prepared /\ n_calls = 2 /\ n_draws = 1) =>
        /\ Len(rd.strips) = Len(wide)
        /\ \A k \in 1..Len(wide) :
             \E i \in 1..Len(rd.strips) :
                 rd_src[i].tile = k - 1 /\ rd.strips[i].dense_width = 0
        /\ rd.alphas = << >>

\* the strips and alpha bytes a draw step leaves are those of rasterizing
\* the line buffer with fill rule `rule`
RasterizedWith(rule) ==
    LET r == Render(MakeTiles(line_buf', width, height), alphas, rule, line_buf')
    IN  strip_buf' = r.strip_buf /\ alphas' = r.alphas

\* C21: fill_path and fill_rect rasterize with the fill rule stored when
\* they are called (NonZero after new and after reset); stroke_path,
\* stroke_rect, fill_glyph and stroke_glyph rasterize with NonZero whatever
\* the stored fill rule is; no draw call changes the stored fill rule.
C21_FillRuleOfDraws ==
    /\ [][ (DrawStep /\ ~panicked') =>
             /\ fill_rule' = fill_rule
             /\ last_call' = "fill_path" => RasterizedWith(fill_rule)
             /\ last_call' \in DrawOps \ { "fill_path" } => RasterizedWith("NonZero") ]_vars
    /\ [][ ResetStep => fill_rule' = "NonZero" ]_vars
    /\ [](last_call = "new" => fill_rule = "NonZero")

\* C21's case: a stroke made while the fill rule is EvenOdd, over an outline
\* that coincides with an earlier one, left strips that EvenOdd would not
C21_Witness ==
    /\ last_call = "stroke_path"
    /\ ~panicked
    /\ fill_rule = "EvenOdd"
    /\ strip_buf # << >>
    /\ Render(tiles, << >>, "EvenOdd", line_buf).strip_buf = << >>

\* C22: when create_bind_groups has returned, every image of the cache has
\* a bind group, whatever calls were made before.
C22_AllImagesBound ==
    last_call = "create_bind_groups" =>
        \A id \in DOMAIN images : images[id].bind_group # None

\* C23: in every state a Scene reaches, every Paint::Indexed of a command in
\* the wide-tile grid has an index below the length of the encoded-paint
\* table and the entry there is an image; so no record that
\* prepare_render_data packs for an indexed paint is the all-zero fallback.
C23_IndexedPaintsResolve ==
    /\ \A k \in 1..Len(wide) : \A i \in 1..Len(wide[k].cmds) :
           ~Unresolved(wide[k].cmds[i].paint)
    /\ Prepared =>
           \A i \in 1..Len(rd.strips) :
               ( /\ rd_src[i].kind \in { "Fill", "AlphaFill" }
                 /\ CmdOf(rd_src[i]).paint.tag = "Indexed" )
               => rd.strips[i].paint_type = 2

\* C23's case: commands drawn with an image paint are in the grid, and
\* prepare_render_data has packed their records
C23_Witness ==
    /\ Prepared
    /\ encoded_paints # << >>
    /\ \E i \in 1..Len(rd.strips) :
         /\ rd_src[i].kind \in { "Fill", "AlphaFill" }
         /\ CmdOf(rd_src[i]).paint.tag = "Indexed"

\* C24: when a Renderer::prepare call has returned, the strips buffer is at
\* least as large as the strips of its RenderData and the alpha texture has
\* at least as many texels as the RenderData has alpha values, so that
\* every alpha value is in the data written to the texture.
C24_ResourcesFitRenderData ==
    (last_call = "prepare" /\ ~panicked) =>
        /\ resources # None
        /\ resources.strips_buffer >= SizeOfGpuStrip * Len(rd.strips)
        /\ resources.alphas_texture.width * resources.alphas_texture.height
               >= Len(rd.alphas)
        /\ IsPrefix(rd.alphas, written.alpha_data)

\* C25: for widths and heights over the u16 range and commands with x below
\* WideTile::WIDTH, the position arithmetic of prepare_render_data does not
\* overflow 16 bits: wide_tile_col * WideTile::WIDTH, wide_tile_row *
\* Tile::HEIGHT and wide_tile_x + cmd.x are at most 65535, so every record
\* carries them unwrapped; wide_tile_idx is an index of the grid; a surface
\* of width or height 0 gives no record.
C25_PositionsFitU16 ==
    /\ visited # None =>
         LET wide_tile_row == visited.val.wide_tile_row
             wide_tile_col == visited.val.wide_tile_col
             packed == visited.val.packed
         IN  /\ wide_tile_col * WideTile_WIDTH <= Limb - 1
             /\ wide_tile_row * Tile_HEIGHT <= Limb - 1
             /\ wide_tile_row * WideTilesPerRow + wide_tile_col < Len(wide)
             /\ ~packed.panic
             /\ \A i \in 1..Len(packed.strips) :
                  LET cmd_x == IF packed.src[i].ci = 0 THEN 0 ELSE CmdOf(packed.src[i]).x
                  IN  /\ wide_tile_col * WideTile_WIDTH + cmd_x <= Limb - 1
                      /\ packed.strips[i].x = wide_tile_col * WideTile_WIDTH + cmd_x
                      /\ packed.strips[i].y = wide_tile_row * Tile_HEIGHT
    /\ Prepared =>
         /\ (width = 0 \/ height = 0) => rd.strips = << >>
         /\ \A i \in 1..Len(rd.strips) :
              LET cmd_x == IF rd_src[i].ci = 0 THEN 0 ELSE CmdOf(rd_src[i]).x
              IN  /\ rd.strips[i].x =
                         (rd_src[i].tile % WideTilesPerRow) * WideTile_WIDTH + cmd_x
                  /\ rd.strips[i].y = (rd_src[i].tile \div WideTilesPerRow) * Tile_HEIGHT

\* C25's case: the last wide tile of a surface of height 65535 was packed,
\* with a command at the last column of the wide tile
C25_Witness ==
    /\ visited # None
    /\ height = Limb - 1
    /\ visited.val.wide_tile_row = DivCeil(height, Tile_HEIGHT) - 1
    /\ \E i \in 1..Len(visited.val.packed.strips) :
         /\ visited.val.packed.src[i].ci > 0
         /\ visited.val.packed.strips[i].x % WideTile_WIDTH = WideTile_WIDTH - 1

=============================================================================
